---- MODULE Spec2Model ----
(***************************************************************************)
(* Model of the story orchestration core: StoryState (store_facts.py),     *)
(* validate_consistency, StoryGeneratorTool.forward,                       *)
(* ExtractFactsTool.forward, generate_choices, build_world, the turn       *)
(* pipeline advance_story (main.py), its HTTP variant                      *)
(* generate_scene_endpoint (app.py), two requests handled concurrently,    *)
(* and the lazily created client of the function tools (_get_hf_client).   *)
(*                                                                         *)
(* Python values are modelled as strings: None/JSON null is "null", the    *)
(* empty mapping is "{}", the empty list is "[]".  A dict is a function    *)
(* whose DOMAIN is the set of keys present.  The generative models behind  *)
(* the adapters are oracles: each call returns one value of a small set    *)
(* or raises.                                                              *)
(***************************************************************************)
EXTENDS Integers, Sequences, FiniteSets, TLC

VARIABLES
  \* ---- StoryState fields (store_facts.py:21-27)
  scene_history, facts, npc_states, world_meta, audio_paths, image_paths,
  \* ---- locals of advance_story (main.py:20-101)
  pc, initial_prompt, last_choice, scene_args, scene_text, new_facts, retries,
  world, choices, audio_b64, image_b64, img_retries, img_bytes, response, error,
  \* ---- observation of one turn (history variables, not program state)
  pre, sceneCalls, chatCalls, factCalls, checks, turns,
  \* ---- the call made outside advance_story: one application of a pure
  \* function to drawn inputs, the last direct StoryState method call, the
  \* agents run by the HTTP request being handled, the two concurrent
  \* sessions, or the threads inside _get_hf_client
  call

state_vars == <<scene_history, facts, npc_states, world_meta, audio_paths, image_paths>>
local_vars == <<pc, initial_prompt, last_choice, scene_args, scene_text, new_facts,
                retries, world, choices, audio_b64, image_b64, img_retries,
                img_bytes, response, error>>
obs_vars   == <<pre, sceneCalls, chatCalls, factCalls, checks, turns>>
vars       == <<state_vars, local_vars, obs_vars, call>>

\* ------------------------------------------------------------------ bounds
\* Turns run on one StoryState before the model stops starting new ones.
MaxTurns == 3
\* Longest JSON array drawn as a reply of the choice model.
MaxChoiceLen == 5

\* Operations on one state when methods of StoryState are called directly:
\* direct calls and turns together.
MaxOps == 2
\* Largest n passed to get_context_window by a direct call.
MaxWindow == 2

\* Calls of _get_hf_client each request thread makes.
MaxClientCalls == 2

\* ------------------------------------------------------ program constants
MAX_FACT_RETRIES  == 2
MAX_IMAGE_RETRIES == 2
\* n of state.get_context_window(n=3)
CONTEXT_N == 3

\* ------------------------------------------------------------ Python values
Null      == "null"
EmptyDict == [k \in {} |-> Null]

\* dict.get(key): None when the key is absent
Get(d, k) == IF k \in DOMAIN d THEN d[k] ELSE Null

\* dict.get(key, default)
GetOr(d, k, dflt) == IF k \in DOMAIN d THEN d[k] ELSE dflt

\* the seven keys of the fact schema, with the extractor's defaults
defaults ==
  [location |-> Null, weather |-> Null, time_of_day |-> Null,
   main_character |-> Null, npc_states |-> "{}", inventory_items |-> "[]",
   events |-> ""]
SchemaKeys == DOMAIN defaults

\* core_keys of validate_consistency, in the order the loop visits them
core_keys == <<"location", "weather", "time_of_day">>
CoreKeySet == {core_keys[i] : i \in 1..Len(core_keys)}

\* ------------------------------------------------------------ JSON values
\* A parsed JSON value: kind says what json.loads returned; for an object d
\* is the dict; for a list (string) DOMAIN d is the set of schema-key names
\* that are elements (substrings) of it, which is all `key not in value`
\* looks at; for a number or null d is empty.
Obj(d)   == [kind |-> "object", d |-> d]
NonObj(kind, ks) == [kind |-> kind, d |-> [k \in ks |-> "elem"]]

\* -------------------------------------------------------------- StoryState
\* The six fields as one record (to_dict, store_facts.py:76-87)
to_dict ==
  [scene_history |-> scene_history, facts |-> facts, npc_states |-> npc_states,
   world_meta |-> world_meta, audio_paths |-> audio_paths,
   image_paths |-> image_paths]

\* A StoryState object: its identity and its six fields.  The session's
\* state is object 0; every StoryState() construction yields a new identity.
Object(id, fields) == [id |-> id, fields |-> fields]
TheState == Object(0, to_dict)

\* StoryState defines no __eq__: `a == b` is object.__eq__, identity
object_eq(a, b) == a.id = b.id

\* obj = cls(); obj.<field> = data.get("<field>", <empty>)
from_dict(data, id) ==
  Object(id,
    [scene_history |-> GetOr(data, "scene_history", <<>>),
     facts         |-> GetOr(data, "facts", EmptyDict),
     npc_states    |-> GetOr(data, "npc_states", EmptyDict),
     world_meta    |-> GetOr(data, "world_meta", <<>>),
     audio_paths   |-> GetOr(data, "audio_paths", <<>>),
     image_paths   |-> GetOr(data, "image_paths", <<>>)])

\* a merge that forgets the keys the new mapping does not carry
update_facts_drop_old(old, new) == new

\* a merge that keeps the value of a key the state already has
update_facts_keep_old(old, new) ==
  [k \in DOMAIN old \cup DOMAIN new |-> IF k \in DOMAIN old THEN old[k] ELSE new[k]]

\* for key, value in new_facts.items(): self.facts[key] = value
update_facts(old, new) ==
  [k \in DOMAIN old \cup DOMAIN new |-> IF k \in DOMAIN new THEN new[k] ELSE old[k]]

\* a history that grows at the front
append_scene_front(h, s) == <<s>> \o h

\* self.scene_history.append(scene_text)
append_scene(h, s) == Append(h, s)

\* self.world_meta.append(world), self.audio_paths.append(audio_path),
\* self.image_paths.append(image_path)
update_world_meta(wm, w) == Append(wm, w)
record_audio(ap, path) == Append(ap, path)
record_image(ip, path) == Append(ip, path)

\* scene_history[-n:]  (for n = 0 the slice [-0:] is the whole list)
LastN(h, n) ==
  IF n = 0 \/ n >= Len(h) THEN h ELSE SubSeq(h, Len(h) - n + 1, Len(h))

\* "\n".join(last_scenes) is a non-empty string
ScenesTextNonEmpty(last) ==
  Len(last) >= 2 \/ (Len(last) = 1 /\ last[1] # "")

\* get_context_window(n): the sections of the composed text.  A section
\* that is left out is an empty sequence / empty dict with its flag FALSE.
get_context_window(h, f, n) ==
  LET last_scenes == LastN(h, n)
      has_scenes  == ScenesTextNonEmpty(last_scenes)
      has_facts   == DOMAIN f # {}
  IN [has_scenes |-> has_scenes,
      scenes     |-> IF has_scenes THEN last_scenes ELSE <<>>,
      has_facts  |-> has_facts,
      facts      |-> IF has_facts THEN f ELSE EmptyDict]

\* --------------------------------------------------- validate_consistency
\* The loop over core_keys from position i, with the early `return False`.
RECURSIVE vc_loop(_, _, _)
vc_loop(old_facts, new_facts_, i) ==
  IF i > Len(core_keys) THEN TRUE
  ELSE LET key     == core_keys[i]
           old_val == Get(old_facts, key)
           new_val == Get(new_facts_, key)
       IN IF old_val # Null /\ new_val # Null /\ old_val # new_val
          THEN FALSE
          ELSE vc_loop(old_facts, new_facts_, i + 1)

\* a slip that drops the `new_val is not None` test
validate_consistency_null_contradicts(old_facts, new_facts_) ==
  \A i \in 1..Len(core_keys) :
     LET old_val == Get(old_facts, core_keys[i])
         new_val == Get(new_facts_, core_keys[i])
     IN ~(old_val # Null /\ old_val # new_val)

validate_consistency(old_facts, new_facts_) == vc_loop(old_facts, new_facts_, 1)

\* --------------------------------------------------------------- oracles
\* What the caller may pass as initial_prompt / last_choice
Prompts == {Null, "seed"}
Choices == {Null, "go left"}

\* A reply of the model behind an adapter: it raises, or returns value
Returns(v)   == [raises |-> FALSE, value |-> v]
RaisesFor(v) == [raises |-> TRUE, value |-> v]

\* Replies of the chat model behind the scene generator
Scenes == {"scene A", "scene B"}
SceneReplies == {Returns(t) : t \in Scenes} \cup {RaisesFor(Null)}

\* JSON objects the fact-extraction model may print
F_forest ==
  [location |-> "forest", weather |-> "rainy", time_of_day |-> Null,
   main_character |-> "Red", npc_states |-> "{}", inventory_items |-> "[]",
   events |-> "enters the forest"]
F_beach ==
  [location |-> "beach", weather |-> "rainy", time_of_day |-> "dusk",
   main_character |-> "Red", npc_states |-> "{Wolf}",
   inventory_items |-> "[lantern]", events |-> "reaches the beach"]
F_partial == [location |-> "forest", mood |-> "eerie"]
F_nulls   == [location |-> Null, weather |-> "sunny"]
RawObjects == {EmptyDict, F_forest, F_beach, F_partial, F_nulls}

\* Replies of the chat model behind the fact extractor: it raises, prints
\* text json.loads rejects, or prints JSON of some kind.
Parsed(j)   == [parses |-> TRUE, value |-> j]
Unparseable == [parses |-> FALSE, value |-> NonObj("null", {})]
FactReplies ==
  {RaisesFor(Unparseable), Returns(Unparseable)}
  \cup {Returns(Parsed(Obj(d))) : d \in RawObjects}
  \cup {Returns(Parsed(NonObj("list", {}))),
        Returns(Parsed(NonObj("list", SchemaKeys))),
        Returns(Parsed(NonObj("null", {})))}

\* What build_world, generate_choices, the narrator, the image generator
\* return when they return
Worlds ==
  {[setting_description |-> "a dark forest", flora |-> "[]", fauna |-> "[]",
    ambiance |-> "[]"]}
WorldReplies  == {Returns(w) : w \in Worlds} \cup {RaisesFor(EmptyDict)}
ChoiceLists   == {<<"Continue forward", "Turn back">>}
ChoiceReplies == {Returns(c) : c \in ChoiceLists} \cup {RaisesFor(<<>>)}
AudioReplies  == {Returns("wav"), RaisesFor(Null)}
ImageReplies  == {Returns("png"), RaisesFor(Null)}
\* an adapter whose result is only tested for truth
BoolReplies   == {Returns(TRUE), Returns(FALSE), RaisesFor(FALSE)}

\* base64.b64encode(x).decode("utf-8")
b64encode(x) ==
  CASE x = "wav" -> "d2F2"
    [] x = "png" -> "cG5n"
    [] OTHER     -> "b64?"

\* ------------------------------------------- StoryGeneratorTool.forward
\* Outcome of one call: exc is the exception raised ("none" if it
\* returned), chat counts the calls of hf_client.chat, value is the reply.
Outcome(exc, chat, value) == [exc |-> exc, chat |-> chat, value |-> value]

\* which branch binds system_msg to a dict and which to a plain string
system_msg_kind(ip, lc) ==
  IF ip # Null THEN "dict" ELSE IF lc # Null THEN "dict" ELSE "str"

\* the scene generator with the both-supplied test left out
StoryGenerator_forward_no_both_check(ip, lc, context, reply) ==
  IF system_msg_kind(ip, lc) = "str"
  THEN Outcome("TypeError", 0, Null)
  ELSE IF reply.raises
       THEN Outcome("AdapterError", 1, Null)
       ELSE Outcome("none", 1, reply.value)

StoryGenerator_forward(ip, lc, context, reply) ==
  IF ip # Null /\ lc # Null
  THEN Outcome("ValueError", 0, Null)
  ELSE IF system_msg_kind(ip, lc) = "str"
       \* messages = [{"role": "system", "content": system_msg["content"]}, ...]
       \* indexes a str with a str
       THEN Outcome("TypeError", 0, Null)
       ELSE IF reply.raises
            THEN Outcome("AdapterError", 1, Null)
            ELSE Outcome("none", 1, reply.value)

\* --------------------------------------------- ExtractFactsTool.forward
\* for key, default_val in defaults.items():
\*     if key not in fact_dict: fact_dict[key] = default_val
fill_defaults_skipped(d) == d

fill_defaults(d) ==
  [k \in DOMAIN d \cup SchemaKeys |-> IF k \in DOMAIN d THEN d[k] ELSE defaults[k]]

ExtractFacts_forward(scene, reply) ==
  IF reply.raises THEN Outcome("AdapterError", 1, Obj(EmptyDict))
  ELSE LET fact_dict == IF reply.value.parses THEN reply.value.value
                        ELSE Obj(defaults)
       IN CASE fact_dict.kind = "object" ->
                 Outcome("none", 1, Obj(fill_defaults(fact_dict.d)))
            \* `key not in 5`, `key not in None`
            [] fact_dict.kind \in {"number", "null"} ->
                 Outcome("TypeError", 1, Obj(EmptyDict))
            \* a list or string: the membership test works, the item
            \* assignment for the first missing key raises
            [] OTHER ->
                 IF SchemaKeys \subseteq DOMAIN fact_dict.d
                 THEN Outcome("none", 1, fact_dict)
                 ELSE Outcome("TypeError", 1, Obj(EmptyDict))

\* ------------------------------------------------------ generate_choices
\* An element of a parsed JSON array: its Python type and its text
StrItem(t) == [type |-> "str", v |-> t]
\* what json.loads(raw) gave: parses says whether it returned, kind what it
\* returned, items the elements when that is a list
ChoiceRaw(parses, kind, items) == [parses |-> parses, kind |-> kind, items |-> items]

\* return ["Continue forward", "Turn back"]
fallback_choices == <<StrItem("Continue forward"), StrItem("Turn back")>>

\* a validation that forgets the upper limit
generate_choices_no_upper(scene, f, raw) ==
  IF raw.parses /\ raw.kind = "list" /\ 2 <= Len(raw.items)
     /\ \A i \in 1..Len(raw.items) : raw.items[i].type = "str"
  THEN raw.items
  ELSE fallback_choices

\* The try block: json.loads, the isinstance / length / all-strings test,
\* `raise ValueError` otherwise; `except Exception` returns the fallback.
generate_choices(scene, f, raw) ==
  IF ~raw.parses
  THEN fallback_choices
  ELSE IF /\ raw.kind = "list"
          /\ 2 <= Len(raw.items) /\ Len(raw.items) <= 4
          /\ \A i \in 1..Len(raw.items) : raw.items[i].type = "str"
       THEN raw.items
       ELSE fallback_choices

\* ------------------------------------------------------------ build_world
\* the four keys of the world mapping, with the defaults of the fill loop
world_defaults ==
  [setting_description |-> "", flora |-> "[]", fauna |-> "[]", ambiance |-> "[]"]
WorldKeys == DOMAIN world_defaults

\* a value inside an f-string: str(None) is "None"
PyStr(v) == IF v = Null THEN "None" ELSE v

\* the mapping substituted when json.loads raises
world_fallback(f) ==
  [setting_description |->
      "A " \o PyStr(GetOr(f, "weather", "calm")) \o " scene in the "
           \o PyStr(GetOr(f, "location", "unknown location")) \o ".",
   flora |-> "[]", fauna |-> "[]", ambiance |-> "[]"]

\* for key, default_val in defaults.items():
\*     if key not in world_dict: world_dict[key] = default_val
fill_world(d) ==
  [k \in DOMAIN d \cup WorldKeys |-> IF k \in DOMAIN d THEN d[k] ELSE world_defaults[k]]

build_world(f, reply) ==
  IF reply.raises THEN Outcome("AdapterError", 1, Obj(EmptyDict))
  ELSE LET world_dict == IF reply.value.parses THEN reply.value.value
                         ELSE Obj(world_fallback(f))
       IN CASE world_dict.kind = "object" ->
                 Outcome("none", 1, Obj(fill_world(world_dict.d)))
            \* `key not in 5`, `key not in None`
            [] world_dict.kind \in {"number", "null"} ->
                 Outcome("TypeError", 1, Obj(EmptyDict))
            \* a list or string: the item assignment for the first
            \* missing key raises
            [] OTHER ->
                 IF WorldKeys \subseteq DOMAIN world_dict.d
                 THEN Outcome("none", 1, world_dict)
                 ELSE Outcome("TypeError", 1, Obj(EmptyDict))

\* ------------------------------------------------------------ advance_story
\* Positions in advance_story: "scene" main.py:52/66, "facts" :55/67,
\* "check" :59, "commit" :70-71, "world" :72, "choices" :75, "tts" :78-79,
\* "decide" :82-83, "image" :85-86, "sanity" :88-91, "package" :94-101;
\* "done" after the return, "error" after an exception left the function,
\* "idle" before the first call.
NoError   == [stage |-> "none", exc |-> "none"]
NoCall    == [op |-> "none"]
NoResponse == EmptyDict

\* retries += 1
next_retries(r) == r + 1

\* a retry bound that is off by one
retries_exhausted_late(r) == r > MAX_FACT_RETRIES + 1

\* if retries > MAX_FACT_RETRIES: break
retries_exhausted(r) == r > MAX_FACT_RETRIES

\* a retry that puts a hint into the prompt
retry_args_with_hint(args, lc) == [args EXCEPT !.last_choice = "hint"]

\* scene_args["last_choice"] = last_choice  # keep same inputs
retry_args(args, lc) == [args EXCEPT !.last_choice = lc]

\* an image loop that forgets to count
next_img_retries_stuck(i) == i

\* img_retries += 1
next_img_retries(i) == i + 1

\* while img_retries <= MAX_IMAGE_RETRIES
image_loop_continues(i) == i <= MAX_IMAGE_RETRIES

InitStory ==
  /\ scene_history = <<>>
  /\ facts = EmptyDict
  /\ npc_states = EmptyDict
  /\ world_meta = <<>>
  /\ audio_paths = <<>>
  /\ image_paths = <<>>
  /\ pc = "idle"
  /\ initial_prompt = Null
  /\ last_choice = Null
  /\ scene_args = [context |-> get_context_window(<<>>, EmptyDict, CONTEXT_N),
                   initial_prompt |-> Null, last_choice |-> Null]
  /\ scene_text = Null
  /\ new_facts = Obj(EmptyDict)
  /\ retries = 0
  /\ world = EmptyDict
  /\ choices = <<>>
  /\ audio_b64 = Null
  /\ image_b64 = Null
  /\ img_retries = 0
  /\ img_bytes = Null
  /\ response = NoResponse
  /\ error = NoError
  /\ pre = [scene_history |-> <<>>, facts |-> EmptyDict, npc_states |-> EmptyDict,
            world_meta |-> <<>>, audio_paths |-> <<>>, image_paths |-> <<>>]
  /\ sceneCalls = 0
  /\ chatCalls = 0
  /\ factCalls = 0
  /\ checks = <<>>
  /\ turns = 0

Init == InitStory /\ call = NoCall

\* The caller invokes advance_story(state, initial_prompt, last_choice) on
\* the state the previous calls left (main.py:20-51).
BeginTurn(ip, lc) ==
  /\ pc \in {"idle", "done", "error"}
  /\ turns < MaxTurns
  /\ turns' = turns + 1
  /\ pc' = "scene"
  /\ initial_prompt' = ip
  /\ last_choice' = lc
  /\ scene_args' = [context |-> get_context_window(scene_history, facts, CONTEXT_N),
                    initial_prompt |-> ip, last_choice |-> lc]
  /\ scene_text' = Null
  /\ new_facts' = Obj(EmptyDict)
  /\ retries' = 0
  /\ world' = EmptyDict
  /\ choices' = <<>>
  /\ audio_b64' = Null
  /\ image_b64' = Null
  /\ img_retries' = 0
  /\ img_bytes' = Null
  /\ response' = NoResponse
  /\ error' = NoError
  /\ pre' = to_dict
  /\ sceneCalls' = 0
  /\ chatCalls' = 0
  /\ factCalls' = 0
  /\ checks' = <<>>
  /\ UNCHANGED <<state_vars, call>>

\* scene_text = scene_tool.forward(**scene_args)   (main.py:52 and :66)
GenerateScene ==
  /\ pc = "scene"
  /\ \E reply \in SceneReplies :
       LET out == StoryGenerator_forward(scene_args.initial_prompt,
                                         scene_args.last_choice,
                                         scene_args.context, reply)
       IN /\ sceneCalls' = sceneCalls + 1
          /\ chatCalls' = chatCalls + out.chat
          /\ IF out.exc # "none"
             THEN /\ pc' = "error"
                  /\ error' = [stage |-> "scene", exc |-> out.exc]
                  /\ UNCHANGED scene_text
             ELSE /\ pc' = "facts"
                  /\ scene_text' = out.value
                  /\ UNCHANGED error
  /\ UNCHANGED <<state_vars, initial_prompt, last_choice, scene_args, new_facts,
                 retries, world, choices, audio_b64, image_b64, img_retries,
                 img_bytes, response, pre, factCalls, checks, turns, call>>

\* new_facts = fact_tool.forward(scene_text)   (main.py:55 and :67)
ExtractFacts ==
  /\ pc = "facts"
  /\ \E reply \in FactReplies :
       LET out == ExtractFacts_forward(scene_text, reply)
       IN /\ factCalls' = factCalls + 1
          /\ IF out.exc # "none"
             THEN /\ pc' = "error"
                  /\ error' = [stage |-> "facts", exc |-> out.exc]
                  /\ UNCHANGED new_facts
             ELSE /\ pc' = "check"
                  /\ new_facts' = out.value
                  /\ UNCHANGED error
  /\ UNCHANGED <<state_vars, initial_prompt, last_choice, scene_args, scene_text,
                 retries, world, choices, audio_b64, image_b64, img_retries,
                 img_bytes, response, pre, sceneCalls, chatCalls, checks, turns,
                 call>>

\* One evaluation of the loop condition and, when it is true, of the loop
\* body up to the regeneration (main.py:59-65).  new_facts.get on a value
\* that is no dict raises AttributeError.
CheckConsistency ==
  /\ pc = "check"
  /\ IF new_facts.kind # "object"
     THEN /\ pc' = "error"
          /\ error' = [stage |-> "check", exc |-> "AttributeError"]
          /\ UNCHANGED <<retries, scene_args, checks>>
     ELSE LET ok == validate_consistency(facts, new_facts.d)
          IN /\ checks' = Append(checks, ok)
             /\ UNCHANGED error
             /\ IF ok
                THEN /\ pc' = "commit"
                     /\ UNCHANGED <<retries, scene_args>>
                ELSE /\ retries' = next_retries(retries)
                     /\ IF retries_exhausted(retries')
                        THEN /\ pc' = "commit"
                             /\ UNCHANGED scene_args
                        ELSE /\ pc' = "scene"
                             /\ scene_args' = retry_args(scene_args, last_choice)
  /\ UNCHANGED <<state_vars, initial_prompt, last_choice, scene_text, new_facts,
                 world, choices, audio_b64, image_b64, img_retries, img_bytes,
                 response, pre, sceneCalls, chatCalls, factCalls, turns, call>>

\* state.update_facts(new_facts); state.append_scene(scene_text)  (main.py:70-71)
Commit ==
  /\ pc = "commit"
  /\ facts' = update_facts(facts, new_facts.d)
  /\ scene_history' = append_scene(scene_history, scene_text)
  /\ pc' = "world"
  /\ UNCHANGED <<npc_states, world_meta, audio_paths, image_paths,
                 initial_prompt, last_choice, scene_args, scene_text, new_facts,
                 retries, world, choices, audio_b64, image_b64, img_retries,
                 img_bytes, response, error, obs_vars, call>>

\* world_meta = world_tool(facts=state.facts)   (main.py:72)
BuildWorld ==
  /\ pc = "world"
  /\ \E reply \in WorldReplies :
       IF reply.raises
       THEN /\ pc' = "error"
            /\ error' = [stage |-> "world", exc |-> "AdapterError"]
            /\ UNCHANGED world
       ELSE /\ pc' = "choices"
            /\ world' = reply.value
            /\ UNCHANGED error
  /\ UNCHANGED <<state_vars, initial_prompt, last_choice, scene_args, scene_text,
                 new_facts, retries, choices, audio_b64, image_b64, img_retries,
                 img_bytes, response, obs_vars, call>>

\* choices = choices_tool(scene_text, state.facts)   (main.py:75)
GenerateChoices ==
  /\ pc = "choices"
  /\ \E reply \in ChoiceReplies :
       IF reply.raises
       THEN /\ pc' = "error"
            /\ error' = [stage |-> "choices", exc |-> "AdapterError"]
            /\ UNCHANGED choices
       ELSE /\ pc' = "tts"
            /\ choices' = reply.value
            /\ UNCHANGED error
  /\ UNCHANGED <<state_vars, initial_prompt, last_choice, scene_args, scene_text,
                 new_facts, retries, world, audio_b64, image_b64, img_retries,
                 img_bytes, response, obs_vars, call>>

\* audio_bytes = tts_tool.forward(scene_text); audio_b64 = b64encode(...)
\* (main.py:78-79)
GenerateAudio ==
  /\ pc = "tts"
  /\ \E reply \in AudioReplies :
       IF reply.raises
       THEN /\ pc' = "error"
            /\ error' = [stage |-> "tts", exc |-> "AdapterError"]
            /\ UNCHANGED audio_b64
       ELSE /\ pc' = "decide"
            /\ audio_b64' = b64encode(reply.value)
            /\ UNCHANGED error
  /\ UNCHANGED <<state_vars, initial_prompt, last_choice, scene_args, scene_text,
                 new_facts, retries, world, choices, image_b64, img_retries,
                 img_bytes, response, obs_vars, call>>

\* the arguments of image_decider.forward(old_facts=state.facts,
\* new_facts=new_facts) at main.py:83, read when the call is made
decider_args == [old_facts |-> facts, new_facts |-> new_facts.d]

\* image_b64 = None; if image_decider.forward(...): img_retries = 0 and the
\* first test of the while condition   (main.py:82-85)
DecideImage ==
  /\ pc = "decide"
  /\ \E reply \in BoolReplies :
       IF reply.raises
       THEN /\ pc' = "error"
            /\ error' = [stage |-> "decide", exc |-> "AdapterError"]
            /\ UNCHANGED <<image_b64, img_retries>>
       ELSE /\ image_b64' = Null
            /\ UNCHANGED error
            /\ IF reply.value
               THEN /\ img_retries' = 0
                    /\ pc' = IF image_loop_continues(0) THEN "image" ELSE "package"
               ELSE /\ pc' = "package"
                    /\ UNCHANGED img_retries
  /\ UNCHANGED <<state_vars, initial_prompt, last_choice, scene_args, scene_text,
                 new_facts, retries, world, choices, audio_b64, img_bytes,
                 response, obs_vars, call>>

\* img_bytes = image_generator.forward(world_meta["setting_description"])
\* (main.py:86)
GenerateImage ==
  /\ pc = "image"
  /\ \E reply \in ImageReplies :
       IF reply.raises \/ "setting_description" \notin DOMAIN world
       THEN /\ pc' = "error"
            /\ error' = [stage |-> "image",
                         exc |-> IF reply.raises THEN "AdapterError" ELSE "KeyError"]
            /\ UNCHANGED img_bytes
       ELSE /\ pc' = "sanity"
            /\ img_bytes' = reply.value
            /\ UNCHANGED error
  /\ UNCHANGED <<state_vars, initial_prompt, last_choice, scene_args, scene_text,
                 new_facts, retries, world, choices, audio_b64, image_b64,
                 img_retries, response, obs_vars, call>>

\* if extract_scene(context=...): image_b64 = b64encode(img_bytes); break
\* img_retries += 1, then the while condition again   (main.py:88-91, :85)
SanityCheck ==
  /\ pc = "sanity"
  /\ \E reply \in BoolReplies :
       IF reply.raises
       THEN /\ pc' = "error"
            /\ error' = [stage |-> "sanity", exc |-> "AdapterError"]
            /\ UNCHANGED <<image_b64, img_retries>>
       ELSE /\ UNCHANGED error
            /\ IF reply.value
               THEN /\ image_b64' = b64encode(img_bytes)
                    /\ pc' = "package"
                    /\ UNCHANGED img_retries
               ELSE /\ img_retries' = next_img_retries(img_retries)
                    /\ pc' = IF image_loop_continues(img_retries')
                             THEN "image" ELSE "package"
                    /\ UNCHANGED image_b64
  /\ UNCHANGED <<state_vars, initial_prompt, last_choice, scene_args, scene_text,
                 new_facts, retries, world, choices, audio_b64, img_bytes,
                 response, obs_vars, call>>

\* return {...}   (main.py:94-101)
Package ==
  /\ pc = "package"
  /\ response' = [scene_text |-> scene_text, updated_state |-> to_dict,
                  world_meta |-> world, choices |-> choices,
                  audio_b64 |-> audio_b64, image_b64 |-> image_b64]
  /\ pc' = "done"
  /\ UNCHANGED <<state_vars, initial_prompt, last_choice, scene_args, scene_text,
                 new_facts, retries, world, choices, audio_b64, image_b64,
                 img_retries, img_bytes, error, obs_vars, call>>

\* the steps of a turn that is under way
TurnStep ==
  \/ GenerateScene
  \/ ExtractFacts
  \/ CheckConsistency
  \/ Commit
  \/ BuildWorld
  \/ GenerateChoices
  \/ GenerateAudio
  \/ DecideImage
  \/ GenerateImage
  \/ SanityCheck
  \/ Package

Next ==
  \/ \E ip \in Prompts, lc \in Choices : BeginTurn(ip, lc)
  \/ TurnStep

Spec == Init /\ [][Next]_vars

\* The interpreter runs a call of advance_story to its end: a step that is
\* enabled is eventually taken.
FairSpec == Spec /\ WF_vars(TurnStep)

\* ----------------------------------------- StoryState methods called directly
\* Between turns a caller may invoke the methods of StoryState directly
\* on the session's state.  call records the last such invocation: its
\* argument, the fields before it and what it returned; n counts them.
OpsDone == IF call.op = "none" THEN 0 ELSE call.n
DirectCall(op, arg, result) ==
  [op |-> op, n |-> OpsDone + 1, arg |-> arg, before |-> to_dict,
   result |-> result]
CanCallDirectly ==
  /\ pc \in {"idle", "done", "error"}
  /\ call.op \in {"none", "update_facts", "append_scene", "update_world_meta",
                  "record_audio", "record_image", "get_context_window",
                  "round_trip"}
  /\ OpsDone + turns < MaxOps

\* arguments drawn for the direct calls
DirectFacts == {F_beach, F_nulls, [npc_states |-> "{}"]}
AudioPaths  == {"scene.wav"}
ImagePaths  == {"scene.png"}

UpdateFacts ==
  \E d \in DirectFacts :
    /\ CanCallDirectly
    /\ facts' = update_facts(facts, d)
    /\ call' = DirectCall("update_facts", d, Null)
    /\ UNCHANGED <<scene_history, npc_states, world_meta, audio_paths,
                   image_paths, local_vars, obs_vars>>

AppendScene ==
  \E t \in Scenes :
    /\ CanCallDirectly
    /\ scene_history' = append_scene(scene_history, t)
    /\ call' = DirectCall("append_scene", t, Null)
    /\ UNCHANGED <<facts, npc_states, world_meta, audio_paths, image_paths,
                   local_vars, obs_vars>>

UpdateWorldMeta ==
  \E w \in Worlds :
    /\ CanCallDirectly
    /\ world_meta' = update_world_meta(world_meta, w)
    /\ call' = DirectCall("update_world_meta", w, Null)
    /\ UNCHANGED <<scene_history, facts, npc_states, audio_paths, image_paths,
                   local_vars, obs_vars>>

RecordAudio ==
  \E path \in AudioPaths :
    /\ CanCallDirectly
    /\ audio_paths' = record_audio(audio_paths, path)
    /\ call' = DirectCall("record_audio", path, Null)
    /\ UNCHANGED <<scene_history, facts, npc_states, world_meta, image_paths,
                   local_vars, obs_vars>>

RecordImage ==
  \E path \in ImagePaths :
    /\ CanCallDirectly
    /\ image_paths' = record_image(image_paths, path)
    /\ call' = DirectCall("record_image", path, Null)
    /\ UNCHANGED <<scene_history, facts, npc_states, world_meta, audio_paths,
                   local_vars, obs_vars>>

\* state.get_context_window(n)
GetContextWindow ==
  \E n \in 0..MaxWindow :
    /\ CanCallDirectly
    /\ call' = DirectCall("get_context_window", n,
                          get_context_window(scene_history, facts, n))
    /\ UNCHANGED <<state_vars, local_vars, obs_vars>>

\* StoryState.from_dict(state.to_dict()) == state
RoundTrip ==
  /\ CanCallDirectly
  /\ LET copy == from_dict(to_dict, OpsDone + 1)
     IN call' = DirectCall("round_trip", Null,
                           [copy |-> copy, equal |-> object_eq(copy, TheState)])
  /\ UNCHANGED <<state_vars, local_vars, obs_vars>>

\* a step of advance_story; a new turn starts only within the budget
TurnInState ==
  /\ Next
  /\ pc \in {"idle", "done", "error"} => OpsDone + turns < MaxOps

StateNext ==
  \/ TurnInState
  \/ UpdateFacts
  \/ AppendScene
  \/ UpdateWorldMeta
  \/ RecordAudio
  \/ RecordImage
  \/ GetContextWindow
  \/ RoundTrip

StateSpec == Init /\ [][StateNext]_vars

\* ------------------------------------------------- generate_scene_endpoint
\* The HTTP variant of a turn (app.py:64-143).  The handler rebuilds
\* state_obj from the request; the six state variables are its fields while
\* the request is handled.  Positions: "h_scene" app.py:76-84, "h_facts"
\* :87-91, "h_check" :94-112, "h_commit" :115-116, "h_choices" :119-126,
\* "h_world" :129-133, "h_respond" :136-143; "h_done" after a response was
\* returned, "h_error" after an HTTPException.  call records the agents
\* the request has run so far, in order.
http_unused == <<retries, audio_b64, image_b64, img_retries, img_bytes,
                 sceneCalls, chatCalls, factCalls>>

\* What the client holds and sends as req.state: the updated_state of the
\* last response, or the state of its last request when that one failed.
ReqState == IF pc = "h_error" THEN pre ELSE to_dict

\* History of the session: the non-null values the core facts have had in
\* the states the responses carried (updated_state), as <<key, value>>.
HeldSoFar == IF call.op = "generate_scene_endpoint" THEN call.held ELSE {}
CoreHeld(f) ==
  {<<k, f[k]>> : k \in {c \in CoreKeySet \cap DOMAIN f : f[c] # Null}}
Returned(c, f) == [c EXCEPT !.held = @ \cup CoreHeld(f)]

\* the agent whose run() the handler has just called
Ran(agent) == [call EXCEPT !.stages = Append(call.stages, agent)]

\* raise HTTPException(status_code=500, detail=f"<stage> failed: {e}")
HttpError(stage, exc) == [stage |-> stage, exc |-> exc, status |-> 500]

\* JSON kind of req.state["scene_history"]: the request model asks only
\* for state to be a mapping (app.py:35), and from_dict stores what it finds
HistoryKinds == {"list", "number"}

\* last_scenes = self.scene_history[-n:] on a value that is no list
\* (store_facts.py:64, called at app.py:73 outside every try)
context_raises(hk) == hk = "number"

\* an exception no handler of the endpoint catches: the framework answers
\* 500 Internal Server Error, with no stage in the detail
Unhandled(exc) == [stage |-> "none", exc |-> exc, status |-> 500]

\* a handler that never returns early
returns_early_never(is_consistent) == FALSE

\* if not is_consistent: return ...   (app.py:104)
returns_early(is_consistent) == ~is_consistent

\* a handler that regenerates the scene after a failed check
http_after_check_retry(is_consistent) ==
  IF is_consistent THEN "h_commit" ELSE "h_scene"

\* where the handler goes after the check: the early return of lines
\* 104-112, or on to the merge at line 115
http_after_check(is_consistent) ==
  IF returns_early(is_consistent) THEN "h_done" ELSE "h_commit"

\* state_obj = StoryState.from_dict(req.state)
\* context_str = state_obj.get_context_window(n=3)          (app.py:67-73)
HttpBegin(ip, lc, hk) ==
  /\ pc \in {"idle", "done", "error", "h_done", "h_error"}
  /\ turns < MaxTurns
  /\ LET state_obj == from_dict(ReqState, turns + 1).fields
     IN /\ scene_history' = state_obj.scene_history
        /\ facts' = state_obj.facts
        /\ npc_states' = state_obj.npc_states
        /\ world_meta' = state_obj.world_meta
        /\ audio_paths' = state_obj.audio_paths
        /\ image_paths' = state_obj.image_paths
        /\ scene_args' =
             [context |-> get_context_window(state_obj.scene_history,
                                             state_obj.facts, CONTEXT_N),
              initial_prompt |-> ip, last_choice |-> lc]
  /\ pre' = ReqState
  /\ turns' = turns + 1
  /\ IF context_raises(hk)
     THEN /\ pc' = "h_error"
          /\ error' = Unhandled("TypeError")
     ELSE /\ pc' = "h_scene"
          /\ error' = NoError
  /\ initial_prompt' = ip
  /\ last_choice' = lc
  /\ scene_text' = Null
  /\ new_facts' = Obj(EmptyDict)
  /\ world' = EmptyDict
  /\ choices' = <<>>
  /\ response' = NoResponse
  /\ checks' = <<>>
  /\ call' = [op |-> "generate_scene_endpoint", stages |-> <<>>,
              history_kind |-> hk, held |-> HeldSoFar]
  /\ UNCHANGED http_unused

\* scene_text = story_agent.run(initial_prompt, last_choice, context)
HttpScene ==
  /\ pc = "h_scene"
  /\ \E reply \in SceneReplies :
       LET out == StoryGenerator_forward(scene_args.initial_prompt,
                                         scene_args.last_choice,
                                         scene_args.context, reply)
       IN IF out.exc # "none"
          THEN /\ pc' = "h_error"
               /\ error' = HttpError("scene", out.exc)
               /\ UNCHANGED scene_text
          ELSE /\ pc' = "h_facts"
               /\ scene_text' = out.value
               /\ UNCHANGED error
  /\ call' = Ran("story")
  /\ UNCHANGED <<state_vars, initial_prompt, last_choice, scene_args, new_facts,
                 world, choices, response, pre, checks, turns, http_unused>>

\* new_facts = fact_agent.run(scene_text=scene_text)
HttpFacts ==
  /\ pc = "h_facts"
  /\ \E reply \in FactReplies :
       LET out == ExtractFacts_forward(scene_text, reply)
       IN IF out.exc # "none"
          THEN /\ pc' = "h_error"
               /\ error' = HttpError("facts", out.exc)
               /\ UNCHANGED new_facts
          ELSE /\ pc' = "h_check"
               /\ new_facts' = out.value
               /\ UNCHANGED error
  /\ call' = Ran("facts")
  /\ UNCHANGED <<state_vars, initial_prompt, last_choice, scene_args, scene_text,
                 world, choices, response, pre, checks, turns, http_unused>>

\* is_consistent = consistency_agent.run(old_facts=state_obj.facts, new_facts)
\* if not is_consistent: return GenerateSceneResponse(..., is_consistent=False,
\*     choices=[], world={}, updated_state=state_obj.to_dict())
HttpCheck ==
  /\ pc = "h_check"
  /\ IF new_facts.kind # "object"
     THEN /\ pc' = "h_error"
          /\ error' = HttpError("check", "AttributeError")
          /\ UNCHANGED <<checks, response>>
     ELSE LET is_consistent == validate_consistency(facts, new_facts.d)
          IN /\ checks' = Append(checks, is_consistent)
             /\ UNCHANGED error
             /\ pc' = http_after_check(is_consistent)
             /\ IF pc' = "h_done"
                THEN response' =
                       [scene_text |-> scene_text, new_facts |-> new_facts.d,
                        is_consistent |-> FALSE, choices |-> <<>>,
                        world |-> EmptyDict, updated_state |-> to_dict]
                ELSE UNCHANGED response
  /\ call' = IF pc' = "h_done" THEN Returned(Ran("consistency"), facts)
             ELSE Ran("consistency")
  /\ UNCHANGED <<state_vars, initial_prompt, last_choice, scene_args, scene_text,
                 new_facts, world, choices, pre, turns, http_unused>>

\* state_obj.update_facts(new_facts); state_obj.append_scene(scene_text)
HttpCommit ==
  /\ pc = "h_commit"
  /\ facts' = update_facts(facts, new_facts.d)
  /\ scene_history' = append_scene(scene_history, scene_text)
  /\ pc' = "h_choices"
  /\ UNCHANGED <<npc_states, world_meta, audio_paths, image_paths,
                 initial_prompt, last_choice, scene_args, scene_text, new_facts,
                 world, choices, response, error, pre, checks, turns, call,
                 http_unused>>

\* choices = choices_agent.run(scene_text=scene_text, facts=state_obj.facts)
HttpChoices ==
  /\ pc = "h_choices"
  /\ \E reply \in ChoiceReplies :
       IF reply.raises
       THEN /\ pc' = "h_error"
            /\ error' = HttpError("choices", "AdapterError")
            /\ UNCHANGED choices
       ELSE /\ pc' = "h_world"
            /\ choices' = reply.value
            /\ UNCHANGED error
  /\ call' = Ran("choices")
  /\ UNCHANGED <<state_vars, initial_prompt, last_choice, scene_args, scene_text,
                 new_facts, world, response, pre, checks, turns, http_unused>>

\* world = world_agent.run(facts=state_obj.facts)
HttpWorld ==
  /\ pc = "h_world"
  /\ \E reply \in WorldReplies :
       IF reply.raises
       THEN /\ pc' = "h_error"
            /\ error' = HttpError("world", "AdapterError")
            /\ UNCHANGED world
       ELSE /\ pc' = "h_respond"
            /\ world' = reply.value
            /\ UNCHANGED error
  /\ call' = Ran("world")
  /\ UNCHANGED <<state_vars, initial_prompt, last_choice, scene_args, scene_text,
                 new_facts, choices, response, pre, checks, turns, http_unused>>

\* return GenerateSceneResponse(..., is_consistent=True, choices=choices,
\*     world=world, updated_state=state_obj.to_dict())
HttpRespond ==
  /\ pc = "h_respond"
  /\ response' = [scene_text |-> scene_text, new_facts |-> new_facts.d,
                  is_consistent |-> TRUE, choices |-> choices, world |-> world,
                  updated_state |-> to_dict]
  /\ pc' = "h_done"
  /\ call' = Returned(call, facts)
  /\ UNCHANGED <<state_vars, initial_prompt, last_choice, scene_args, scene_text,
                 new_facts, world, choices, error, pre, checks, turns,
                 http_unused>>

HttpStep ==
  \/ HttpScene
  \/ HttpFacts
  \/ HttpCheck
  \/ HttpCommit
  \/ HttpChoices
  \/ HttpWorld
  \/ HttpRespond

HttpNext ==
  \/ \E ip \in Prompts, lc \in Choices, hk \in HistoryKinds : HttpBegin(ip, lc, hk)
  \/ HttpStep

HttpSpec == Init /\ [][HttpNext]_vars

\* both variants of a turn, advance_story and generate_scene_endpoint
TurnNext ==
  \/ Next
  \/ HttpNext

TurnSpec == Init /\ [][TurnNext]_vars

\* --------------------------------------------------------- _get_hf_client
\* The lazily created client of the function tools (tools.py:24-34,
\* Tools/generate_choices.py:23-30, Tools/build_world.py:23-30), used from
\* the request threads of the server.  call holds the module global
\* _hf_client (slot: whether the name is bound, and the handle it holds,
\* 0 for None), the number of InferenceClientModel objects constructed, and
\* for each thread its position in _get_hf_client, the calls it has ended,
\* the handle its last call returned and whether a call raised.
Threads == {1, 2}

\* tools.py binds _hf_client = None at import (line 25); the modules under
\* Tools/ declare it global inside the function and bind it nowhere
SlotAtImport == {[bound |-> TRUE, handle |-> 0], [bound |-> FALSE, handle |-> 0]}

ClientInits ==
  {[op |-> "_get_hf_client", slot |-> sl, created |-> 0,
    th |-> [t \in Threads |->
              [at |-> "idle", calls |-> 0, got |-> 0, failed |-> FALSE]]] :
     sl \in SlotAtImport}

ClientInit == InitStory /\ call \in ClientInits

\* hf_client = _get_hf_client()
ClientEnter(t) ==
  /\ call.th[t].at = "idle"
  /\ call.th[t].calls < MaxClientCalls
  /\ call' = [call EXCEPT !.th[t].at = "check"]
  /\ UNCHANGED <<state_vars, local_vars, obs_vars>>

\* if _hf_client is None:   (NameError when the global is not bound)
ClientCheck(t) ==
  /\ call.th[t].at = "check"
  /\ call' = IF ~call.slot.bound
             THEN [call EXCEPT !.th[t].at = "idle",
                               !.th[t].calls = @ + 1,
                               !.th[t].failed = TRUE]
             ELSE [call EXCEPT !.th[t].at =
                                  IF call.slot.handle = 0 THEN "create"
                                  ELSE "return"]
  /\ UNCHANGED <<state_vars, local_vars, obs_vars>>

\* _hf_client = InferenceClientModel(model_name=..., api_token=...)
ClientCreate(t) ==
  /\ call.th[t].at = "create"
  /\ call' = [call EXCEPT !.created = @ + 1,
                          !.slot.handle = call.created + 1,
                          !.th[t].at = "return"]
  /\ UNCHANGED <<state_vars, local_vars, obs_vars>>

\* return _hf_client
ClientReturn(t) ==
  /\ call.th[t].at = "return"
  /\ call' = [call EXCEPT !.th[t].at = "idle",
                          !.th[t].calls = @ + 1,
                          !.th[t].got = call.slot.handle]
  /\ UNCHANGED <<state_vars, local_vars, obs_vars>>

ClientNext ==
  \E t \in Threads :
    \/ ClientEnter(t)
    \/ ClientCheck(t)
    \/ ClientCreate(t)
    \/ ClientReturn(t)

ClientSpec == ClientInit /\ [][ClientNext]_vars

\* ------------------------------------------------ two concurrent sessions
\* Two requests of generate_scene_endpoint handled by two threads, each on
\* the StoryState it rebuilt from its own payload.  The lists and dicts of
\* the process are kept as objects with identities: call.lists and
\* call.dicts are the objects created so far (the identity is the index),
\* and a session holds the identities of its scene_history and facts.
Sessions == {1, 2}

\* a new story: the front end sends state = {} and initial_prompt
NewStory == [state |-> EmptyDict, initial_prompt |-> "seed", last_choice |-> Null]
\* a story one scene old: state is the updated_state of its first response
OldStory ==
  [state |-> [scene_history |-> <<"scene A">>, facts |-> F_forest,
              npc_states |-> EmptyDict, world_meta |-> <<>>,
              audio_paths |-> <<>>, image_paths |-> <<>>],
   initial_prompt |-> Null, last_choice |-> "go left"]
SessionRequests == {NewStory, OldStory}
SessionFactReplies ==
  {Returns(Parsed(Obj(F_forest))), Returns(Parsed(Obj(F_beach))),
   Returns(Parsed(Obj(F_nulls))), RaisesFor(Unparseable)}

IdleSession ==
  [at |-> "idle", req |-> NewStory, hist |-> 0, facts |-> 0,
   context |-> get_context_window(<<>>, EmptyDict, CONTEXT_N),
   scene_text |-> Null, new_facts |-> EmptyDict, choices |-> <<>>,
   world |-> EmptyDict, response |-> NoResponse]

SessionsInit ==
  /\ InitStory
  /\ call = [op |-> "sessions", lists |-> <<>>, dicts |-> <<>>,
             ses |-> [i \in Sessions |-> IdleSession]]

\* an object every construction shares
new_object_shared(n) == 1

\* the identity of a newly built object when n objects exist: the JSON
\* decoder builds the payload's lists and dicts per request, and the
\* defaults [] and {} of from_dict are evaluated at each call
new_object(n) == n + 1

\* the object with identity id holds v
Store(objs, id, v) == IF id > Len(objs) THEN Append(objs, v) ELSE [objs EXCEPT ![id] = v]

Sess(i) == call.ses[i]
History(i) == call.lists[Sess(i).hist]
Facts(i) == call.dicts[Sess(i).facts]

\* state_obj = StoryState.from_dict(req.state)
\* context_str = state_obj.get_context_window(n=3)
SessionBegin(i) ==
  \E req \in SessionRequests :
    /\ call.op = "sessions"
    /\ Sess(i).at = "idle"
    /\ LET state_obj == from_dict(req.state, i).fields
           h == new_object(Len(call.lists))
           f == new_object(Len(call.dicts))
           lists == Store(call.lists, h, state_obj.scene_history)
           dicts == Store(call.dicts, f, state_obj.facts)
       IN call' = [call EXCEPT
                     !.lists = lists,
                     !.dicts = dicts,
                     !.ses[i] = [IdleSession EXCEPT
                        !.at = "scene", !.req = req, !.hist = h, !.facts = f,
                        !.context = get_context_window(lists[h], dicts[f],
                                                       CONTEXT_N)]]
    /\ UNCHANGED <<state_vars, local_vars, obs_vars>>

\* scene_text = story_agent.run(...)
SessionScene(i) ==
  /\ call.op = "sessions"
  /\ Sess(i).at = "scene"
  /\ \E reply \in SceneReplies :
       LET out == StoryGenerator_forward(Sess(i).req.initial_prompt,
                                         Sess(i).req.last_choice,
                                         Sess(i).context, reply)
       IN call' = IF out.exc # "none"
                  THEN [call EXCEPT !.ses[i].at = "error"]
                  ELSE [call EXCEPT !.ses[i].at = "facts",
                                    !.ses[i].scene_text = out.value]
  /\ UNCHANGED <<state_vars, local_vars, obs_vars>>

\* new_facts = fact_agent.run(scene_text=scene_text)
SessionFacts(i) ==
  /\ call.op = "sessions"
  /\ Sess(i).at = "facts"
  /\ \E reply \in SessionFactReplies :
       LET out == ExtractFacts_forward(Sess(i).scene_text, reply)
       IN call' = IF out.exc # "none"
                  THEN [call EXCEPT !.ses[i].at = "error"]
                  ELSE [call EXCEPT !.ses[i].at = "check",
                                    !.ses[i].new_facts = out.value.d]
  /\ UNCHANGED <<state_vars, local_vars, obs_vars>>

\* the response the handler builds from its locals and state_obj.to_dict()
SessionResponse(i, ok) ==
  [scene_text |-> Sess(i).scene_text, new_facts |-> Sess(i).new_facts,
   is_consistent |-> ok,
   choices |-> IF ok THEN Sess(i).choices ELSE <<>>,
   world |-> IF ok THEN Sess(i).world ELSE EmptyDict,
   updated_state |->
     [from_dict(Sess(i).req.state, i).fields EXCEPT
        !.scene_history = History(i), !.facts = Facts(i)]]

\* is_consistent = consistency_agent.run(old_facts=state_obj.facts, ...)
\* and the early return
SessionCheck(i) ==
  /\ call.op = "sessions"
  /\ Sess(i).at = "check"
  /\ LET is_consistent == validate_consistency(Facts(i), Sess(i).new_facts)
     IN call' = IF returns_early(is_consistent)
                THEN [call EXCEPT !.ses[i].at = "done",
                                  !.ses[i].response = SessionResponse(i, FALSE)]
                ELSE [call EXCEPT !.ses[i].at = "commit"]
  /\ UNCHANGED <<state_vars, local_vars, obs_vars>>

\* state_obj.update_facts(new_facts); state_obj.append_scene(scene_text)
SessionCommit(i) ==
  /\ call.op = "sessions"
  /\ Sess(i).at = "commit"
  /\ call' = [call EXCEPT
                !.dicts[Sess(i).facts] = update_facts(@, Sess(i).new_facts),
                !.lists[Sess(i).hist] = append_scene(@, Sess(i).scene_text),
                !.ses[i].at = "choices"]
  /\ UNCHANGED <<state_vars, local_vars, obs_vars>>

\* choices = choices_agent.run(...)
SessionChoices(i) ==
  /\ call.op = "sessions"
  /\ Sess(i).at = "choices"
  /\ \E reply \in ChoiceReplies :
       call' = IF reply.raises
               THEN [call EXCEPT !.ses[i].at = "error"]
               ELSE [call EXCEPT !.ses[i].at = "world",
                                 !.ses[i].choices = reply.value]
  /\ UNCHANGED <<state_vars, local_vars, obs_vars>>

\* world = world_agent.run(facts=state_obj.facts) and the response
SessionWorld(i) ==
  /\ call.op = "sessions"
  /\ Sess(i).at = "world"
  /\ \E reply \in WorldReplies :
       call' = IF reply.raises
               THEN [call EXCEPT !.ses[i].at = "error"]
               ELSE [call EXCEPT !.ses[i].at = "respond",
                                 !.ses[i].world = reply.value]
  /\ UNCHANGED <<state_vars, local_vars, obs_vars>>

\* return GenerateSceneResponse(..., updated_state=state_obj.to_dict())
SessionRespond(i) ==
  /\ call.op = "sessions"
  /\ Sess(i).at = "respond"
  /\ call' = [call EXCEPT !.ses[i].at = "done",
                          !.ses[i].response = SessionResponse(i, TRUE)]
  /\ UNCHANGED <<state_vars, local_vars, obs_vars>>

SessionsNext ==
  \E i \in Sessions :
    \/ SessionBegin(i)
    \/ SessionScene(i)
    \/ SessionFacts(i)
    \/ SessionCheck(i)
    \/ SessionCommit(i)
    \/ SessionChoices(i)
    \/ SessionWorld(i)
    \/ SessionRespond(i)

SessionsSpec == SessionsInit /\ [][SessionsNext]_vars

\* ------------------------------------------- pure functions on drawn inputs
\* Fact mappings for validate_consistency: every core key absent, null or
\* one of two values, with three settings of the other four keys.
CoreVals  == {Null, "forest", "beach"}
CoreDicts == UNION {[S -> CoreVals] : S \in SUBSET CoreKeySet}
NonCoreDicts ==
  {EmptyDict,
   [main_character |-> "Red", npc_states |-> "{}", inventory_items |-> "[]",
    events |-> ""],
   [main_character |-> "Wolf", npc_states |-> "{Wolf}",
    inventory_items |-> "[lantern]", events |-> "howls"]}
VCDicts == {update_facts(c, p) : c \in CoreDicts, p \in NonCoreDicts}

VCCalls ==
  {[op |-> "validate_consistency", old |-> o, new |-> n,
    done |-> FALSE, result |-> FALSE] : o, n \in VCDicts}

\* Replies for ExtractFactsTool.forward: JSON objects over every subset of
\* the schema keys and one key outside the schema, and JSON that is no
\* object (a list or string holding none, one or all of the key names, a
\* number, null), and text that does not parse.
FillDicts ==
  UNION {[S -> {Null, "x"}] : S \in SUBSET (SchemaKeys \cup {"mood"})}
NonObjects ==
  {NonObj(k, ks) : k \in {"list", "string"},
                   ks \in {{}, {"location"}, SchemaKeys}}
  \cup {NonObj("number", {}), NonObj("null", {})}
ExtractReplies ==
  {Returns(Unparseable)}
  \cup {Returns(Parsed(Obj(d))) : d \in FillDicts}
  \cup {Returns(Parsed(j)) : j \in NonObjects}
ExtractCalls ==
  {[op |-> "extract_facts", reply |-> r, done |-> FALSE,
    result |-> Outcome("none", 0, Obj(EmptyDict))] : r \in ExtractReplies}

\* Replies for generate_choices: every array of up to MaxChoiceLen elements
\* that are strings or a number, JSON of another kind, unparseable text.
ChoiceItems == {StrItem("Go on"), StrItem("Wait"), [type |-> "int", v |-> "7"]}
ChoiceArrays == UNION {[1..n -> ChoiceItems] : n \in 0..MaxChoiceLen}
ChoiceRaws ==
  {ChoiceRaw(TRUE, "list", a) : a \in ChoiceArrays}
  \cup {ChoiceRaw(TRUE, k, <<>>) : k \in {"object", "string", "number", "null"}}
  \cup {ChoiceRaw(FALSE, "null", <<>>)}
ChoiceCalls ==
  {[op |-> "generate_choices", raw |-> r, done |-> FALSE, result |-> <<>>] :
     r \in ChoiceRaws}

\* Replies for build_world: JSON objects over every subset of the four keys
\* and one other key, JSON that is no object, unparseable text.
WorldDicts ==
  UNION {[S -> {"x"}] : S \in SUBSET (WorldKeys \cup {"music"})}
WorldNonObjects ==
  {NonObj(k, ks) : k \in {"list", "string"}, ks \in {{}, WorldKeys}}
  \cup {NonObj("number", {}), NonObj("null", {})}
WorldRaws ==
  {Returns(Unparseable)}
  \cup {Returns(Parsed(Obj(d))) : d \in WorldDicts}
  \cup {Returns(Parsed(j)) : j \in WorldNonObjects}
WorldCalls ==
  {[op |-> "build_world", facts |-> f, reply |-> r, done |-> FALSE,
    result |-> Outcome("none", 0, Obj(EmptyDict))] :
     f \in {EmptyDict, F_forest, F_nulls}, r \in WorldRaws}

PureInit ==
  /\ InitStory
  /\ call \in VCCalls \cup ExtractCalls \cup ChoiceCalls \cup WorldCalls

\* validate_consistency(old_facts, new_facts) applied to the drawn pair
ApplyValidateConsistency ==
  /\ call.op = "validate_consistency"
  /\ ~call.done
  /\ call' = [call EXCEPT !.done = TRUE,
                          !.result = validate_consistency(call.old, call.new)]
  /\ UNCHANGED <<state_vars, local_vars, obs_vars>>

\* fact_tool.forward(scene_text) with the drawn reply of the model
ApplyExtractFacts ==
  /\ call.op = "extract_facts"
  /\ ~call.done
  /\ call' = [call EXCEPT !.done = TRUE,
                          !.result = ExtractFacts_forward("scene A", call.reply)]
  /\ UNCHANGED <<state_vars, local_vars, obs_vars>>

\* generate_choices(scene_text, facts) with the drawn reply of the model
ApplyGenerateChoices ==
  /\ call.op = "generate_choices"
  /\ ~call.done
  /\ call' = [call EXCEPT !.done = TRUE,
                          !.result = generate_choices("scene A", F_forest, call.raw)]
  /\ UNCHANGED <<state_vars, local_vars, obs_vars>>

\* build_world(facts) with the drawn reply of the model
ApplyBuildWorld ==
  /\ call.op = "build_world"
  /\ ~call.done
  /\ call' = [call EXCEPT !.done = TRUE,
                          !.result = build_world(call.facts, call.reply)]
  /\ UNCHANGED <<state_vars, local_vars, obs_vars>>

PureNext ==
  \/ ApplyValidateConsistency
  \/ ApplyExtractFacts
  \/ ApplyGenerateChoices
  \/ ApplyBuildWorld

PureSpec == PureInit /\ [][PureNext]_vars

\* ==================================================================== claims
AfterCommit == {"world", "choices", "tts", "decide", "image", "sanity",
                "package", "done"}
LastCheck == checks[Len(checks)]
FalseChecks == Cardinality({i \in 1..Len(checks) : ~checks[i]})
\* the retry loop gave up: it was left with the check still false
GaveUp == pc \in AfterCommit /\ checks # <<>> /\ ~LastCheck

\* C1: validate_consistency(old, new) is false exactly when some key of
\* {location, weather, time_of_day} is non-null on both sides with two
\* different values; a null or absent value never makes it false, and the
\* values of the other four keys never change the result.
CoreContradiction(old, new) ==
  \E k \in {"location", "weather", "time_of_day"} :
     /\ k \in DOMAIN old /\ old[k] # Null
     /\ k \in DOMAIN new /\ new[k] # Null
     /\ old[k] # new[k]
C1_ValidateConsistency ==
  (call.op = "validate_consistency" /\ call.done) =>
     /\ (call.result = FALSE) <=> CoreContradiction(call.old, call.new)
     /\ \A p, q \in NonCoreDicts \ {EmptyDict} :
          validate_consistency(update_facts(call.old, p),
                               update_facts(call.new, q)) = call.result
C1_Witness ==
  /\ call.op = "validate_consistency" /\ call.done /\ ~call.result
  /\ "weather" \notin DOMAIN call.old
  /\ Get(call.new, "weather") = "forest"
  /\ Get(call.old, "time_of_day") = "beach"
  /\ Get(call.new, "time_of_day") = Null
  /\ Get(call.old, "main_character") # Get(call.new, "main_character")

\* C2: in one call of advance_story the scene generator is invoked at most
\* 1 + MAX_FACT_RETRIES = 3 times, the fact extractor as often as the scene
\* generator once the retry loop is left, and each invocation after the
\* first follows a consistency check that returned false.
C2_BoundedRegeneration ==
  /\ 1 + MAX_FACT_RETRIES = 3
  /\ sceneCalls <= 3
  /\ factCalls <= sceneCalls
  /\ sceneCalls <= factCalls + 1
  /\ (pc \in AfterCommit \cup {"commit"}) => sceneCalls = factCalls
  /\ sceneCalls > 0 => sceneCalls <= 1 + FalseChecks
C2_Witness == pc = "done" /\ sceneCalls = 3 /\ factCalls = 3

\* C3: when the check is still false after all retries, the turn commits
\* anyway: the facts of the last attempt overwrite the state's facts, the
\* scene text of the last attempt is appended to scene_history, and the
\* response packaged at the end carries that scene and that state.
C3_CommitAfterGivingUp ==
  GaveUp =>
     /\ sceneCalls = 1 + MAX_FACT_RETRIES
     /\ \A k \in DOMAIN new_facts.d : facts[k] = new_facts.d[k]
     /\ scene_history = Append(pre.scene_history, scene_text)
     /\ pc = "done" =>
          /\ response.scene_text = scene_text
          /\ response.updated_state.facts = facts
          /\ response.updated_state.scene_history = scene_history
C3_Witness ==
  /\ GaveUp /\ pc = "done"
  /\ ~validate_consistency(pre.facts, new_facts.d)
  /\ facts["location"] # pre.facts["location"]

\* C4: a turn is atomic: when a stage raises, the StoryState handed to
\* advance_story is exactly as it was before the turn.
C4_TurnAtomic == pc = "error" => to_dict = pre

\* C5: with both initial_prompt and last_choice supplied the scene generator
\* raises ValueError before it calls the model, and the turn ends in that
\* error with the StoryState unchanged.
C5_BothSuppliedRejected ==
  (pc # "idle" /\ initial_prompt # Null /\ last_choice # Null) =>
     /\ pc \in {"scene", "error"}
     /\ chatCalls = 0
     /\ to_dict = pre
     /\ pc = "scene" => sceneCalls = 0
     /\ pc = "error" => /\ error = [stage |-> "scene", exc |-> "ValueError"]
                        /\ sceneCalls = 1
C5_Witness ==
  /\ pc = "error" /\ error.exc = "ValueError"
  /\ initial_prompt # Null /\ last_choice # Null
  /\ scene_history # <<>>

\* C6: with neither initial_prompt nor last_choice supplied, forward does
\* not fail: it calls the model once and returns its reply (so the only
\* error of that call is one the model itself raised).
C6_ContextOnlyCallsModel ==
  (pc \notin {"idle", "scene"} /\ initial_prompt = Null /\ last_choice = Null
     /\ sceneCalls = 1) =>
     /\ chatCalls = 1
     /\ pc = "error" => error.exc = "AdapterError"

\* C7: the response of a committed turn says whether the committed facts
\* were consistent: is_consistent is the result of the last check.
C7_ResponseMarksConsistency ==
  pc = "done" =>
     /\ "is_consistent" \in DOMAIN response
     /\ response["is_consistent"] = LastCheck

\* C8: every turn terminates: a call of advance_story that is under way
\* reaches the end of response packaging or leaves with an exception;
\* neither retry loop runs forever.
C8_TurnTerminates == [](pc = "scene" => <>(pc \in {"done", "error"}))
C8_Witness ==
  /\ pc = "done" /\ GaveUp
  /\ img_retries = MAX_IMAGE_RETRIES + 1 /\ image_b64 = Null

\* C9: after every committed turn scene_history and world_meta have the
\* same number of entries.
C9_WorldMetaPerScene == pc = "done" => Len(scene_history) = Len(world_meta)

NotAnObject(reply) == ~reply.value.parses \/ reply.value.value.kind # "object"
C11_MalformedGivesDefaults ==
  (call.op = "extract_facts" /\ call.done /\ NotAnObject(call.reply)) =>
     /\ call.result.exc = "none"
     /\ call.result.value = Obj(defaults)

\* C12: for every fact mapping f parsed from the reply, the filled mapping
\* has exactly the seven schema keys, keeps the value of every schema key of
\* f and gives every missing schema key its default.
ParsedObject(reply) == reply.value.parses /\ reply.value.value.kind = "object"
C12_FillDefaultsExactSchema ==
  (call.op = "extract_facts" /\ call.done /\ ParsedObject(call.reply)) =>
     LET f   == call.reply.value.value.d
         out == call.result.value.d
     IN /\ call.result.exc = "none"
        /\ DOMAIN out = SchemaKeys
        /\ \A k \in SchemaKeys :
             out[k] = IF k \in DOMAIN f THEN f[k] ELSE defaults[k]

\* C13: for every reply of the model, generate_choices returns a list of 2
\* to 4 strings: the parsed value itself when that is a list of 2..4
\* strings, and ["Continue forward", "Turn back"] in every other case.
AllStrings(items) == \A i \in 1..Len(items) : items[i].type = "str"
WellFormedChoices(raw) ==
  /\ raw.parses /\ raw.kind = "list"
  /\ Len(raw.items) \in 2..4
  /\ AllStrings(raw.items)
C13_ChoicesValidatedOrFallback ==
  (call.op = "generate_choices" /\ call.done) =>
     /\ Len(call.result) \in 2..4
     /\ AllStrings(call.result)
     /\ WellFormedChoices(call.raw) => call.result = call.raw.items
     /\ ~WellFormedChoices(call.raw) =>
          call.result = <<StrItem("Continue forward"), StrItem("Turn back")>>
C13_Witness ==
  /\ call.op = "generate_choices" /\ call.done
  /\ call.raw.kind = "list" /\ Len(call.raw.items) = 5
  /\ AllStrings(call.raw.items)
  /\ call.result = <<StrItem("Continue forward"), StrItem("Turn back")>>

\* C14: for every reply of the model, build_world raises nothing and
\* returns a mapping whose key set is exactly {setting_description, flora,
\* fauna, ambiance}.
C14_WorldAlwaysFourKeys ==
  (call.op = "build_world" /\ call.done) =>
     /\ call.result.exc = "none"
     /\ call.result.value.kind = "object"
     /\ DOMAIN call.result.value.d =
          {"setting_description", "flora", "fauna", "ambiance"}

\* C15: for every reachable StoryState s, from_dict(s.to_dict()) has the
\* same six fields as s and compares equal to s.
C15_RoundTrip ==
  call.op = "round_trip" =>
     /\ call.result.copy.fields = call.before
     /\ call.result.equal

\* C16: get_context_window(n) shows exactly the last min(n, len) scenes in
\* history order (none when n = 0), leaves the scenes section out when that
\* selection is empty, and shows the facts iff facts is non-empty.
LastMin(h, n) ==
  LET m == IF n < Len(h) THEN n ELSE Len(h)
  IN [i \in 1..m |-> h[Len(h) - m + i]]
C16_ContextWindow ==
  call.op = "get_context_window" =>
     LET expected == LastMin(call.before.scene_history, call.arg)
     IN /\ call.result.scenes = expected
        /\ (expected = <<>> => ~call.result.has_scenes)
        /\ call.result.has_facts <=> (DOMAIN call.before.facts # {})

\* C17: update_facts(new_facts) is a shallow overwrite: afterwards every
\* key of new_facts holds the value new_facts gives it (a value that is a
\* nested mapping is replaced as a whole), every other key keeps its value,
\* and scene_history, npc_states, world_meta and the media lists are
\* unchanged.
IsUpdateFactsCall == call' # call /\ call'.op = "update_facts"
C17_ShallowOverwrite ==
  [][IsUpdateFactsCall =>
       /\ DOMAIN facts' = DOMAIN facts \cup DOMAIN call'.arg
       /\ \A k \in DOMAIN call'.arg : facts'[k] = call'.arg[k]
       /\ \A k \in DOMAIN facts \ DOMAIN call'.arg : facts'[k] = facts[k]
       /\ scene_history' = scene_history
       /\ npc_states' = npc_states
       /\ world_meta' = world_meta
       /\ audio_paths' = audio_paths
       /\ image_paths' = image_paths]_vars
\* an update_facts that overwrote a nested npc_states mapping with a smaller
\* one and left keys it did not carry in place
C17_Witness ==
  /\ call.op = "update_facts"
  /\ call.arg = [npc_states |-> "{}"]
  /\ "npc_states" \in DOMAIN call.before.facts
  /\ call.before.facts["npc_states"] = "{Wolf}"
  /\ facts["npc_states"] = "{}"
  /\ "location" \in DOMAIN facts
  /\ facts["location"] = call.before.facts["location"]
  /\ Len(scene_history) >= 1

\* C18: scene_history is append-only: over every operation and every step
\* of a turn the old history is a prefix of the new one; append_scene and a
\* committed turn add exactly one entry at the end.
IsPrefix(a, b) == Len(a) <= Len(b) /\ SubSeq(b, 1, Len(a)) = a
IsAppendSceneCall == call' # call /\ call'.op = "append_scene"
C18_HistoryAppendOnly ==
  [][/\ IsPrefix(scene_history, scene_history')
     /\ Len(scene_history') <= Len(scene_history) + 1
     /\ IsAppendSceneCall =>
          scene_history' = scene_history \o <<call'.arg>>
     /\ (pc = "commit" /\ pc' # "commit") =>
          scene_history' = scene_history \o <<scene_text>>]_vars
\* a history that grew by a direct append_scene and by a committed turn
C18_Witness ==
  /\ call.op = "append_scene"
  /\ turns >= 1
  /\ pc = "done"
  /\ Len(scene_history) >= 2
  /\ Len(pre.scene_history) >= 1

\* C19: when the consistency check of a turn passed, the turn commits:
\* scene_history is the history the turn started from plus one entry, the
\* scene_text of the response; every key the extractor returned holds the
\* extracted value in the state; updated_state in the response is the
\* serialization of that state.
CheckPassed == checks # <<>> /\ checks[Len(checks)]
Committed ==
  /\ scene_history = pre.scene_history \o <<scene_text>>
  /\ \A k \in DOMAIN new_facts.d :
       k \in DOMAIN facts /\ facts[k] = new_facts.d[k]
C19_PassedCheckCommits ==
  /\ (CheckPassed /\ pc \in {"world", "choices", "tts", "decide", "image",
                              "sanity", "package", "h_choices", "h_world",
                              "h_respond"}) => Committed
  /\ (CheckPassed /\ pc \in {"done", "h_done"}) =>
        /\ Committed
        /\ response.scene_text = scene_text
        /\ response.updated_state = to_dict
        /\ response.updated_state.scene_history =
             pre.scene_history \o <<response.scene_text>>
\* a response of the endpoint after a passing check on a state that already
\* held facts and a scene
C19_Witness ==
  /\ pc = "h_done"
  /\ CheckPassed
  /\ Len(pre.scene_history) >= 1
  /\ DOMAIN pre.facts # {}
  /\ \E k \in DOMAIN new_facts.d \cap DOMAIN pre.facts :
       pre.facts[k] # new_facts.d[k]
  /\ response.updated_state.facts = facts

\* C20: in generate_scene_endpoint, when the consistency check returns
\* false the response has is_consistent = false, choices = [] and
\* world = {}, updated_state equals the state of the request, and neither
\* the choice generator nor the world builder was run.
InStages(agent) == \E i \in 1..Len(call.stages) : call.stages[i] = agent
RoundTripFields ==
  call.op = "round_trip" => call.result.copy.fields = call.before

\* C21: in generate_scene_endpoint a stage that raises ends the request
\* with a server error whose detail names that stage, with no later stage
\* run and no success response; a state payload that cannot be rebuilt into
\* a state ends with a client error before any stage is run.
LastStage == call.stages[Len(call.stages)]
StageOf(agent) ==
  CASE agent = "story" -> "scene"
    [] agent = "facts" -> "facts"
    [] agent = "consistency" -> "check"
    [] agent = "choices" -> "choices"
    [] agent = "world" -> "world"
C21_StageErrorsSurface ==
  (call.op = "generate_scene_endpoint" /\ pc = "h_error") =>
     /\ response = NoResponse
     /\ call.history_kind = "list" =>
          /\ error.status = 500
          /\ call.stages # <<>>
          /\ error.stage = StageOf(LastStage)
     /\ call.history_kind # "list" =>
          /\ call.stages = <<>>
          /\ error.status \in 400..499
\* the part of C21 about stages that raise, on payloads that are states
StageErrorsNamed ==
  (call.op = "generate_scene_endpoint" /\ pc = "h_error"
     /\ call.history_kind = "list") =>
     /\ response = NoResponse
     /\ error.status = 500
     /\ call.stages # <<>>
     /\ error.stage = StageOf(LastStage)

\* C22: within one turn of advance_story every call of the scene generator,
\* the first and each retry, gets the arguments built at the start of the
\* turn, and the state is the pre-turn state until the retry loop has ended,
\* so every consistency check compares against the pre-turn facts.
TurnArgs ==
  [context |-> get_context_window(pre.scene_history, pre.facts, CONTEXT_N),
   initial_prompt |-> initial_prompt, last_choice |-> last_choice]
ImageCalls ==
  CASE pc = "sanity" -> img_retries + 1
    [] pc \in {"package", "done"} ->
         IF image_b64 # Null THEN img_retries + 1 ELSE img_retries
    [] OTHER -> img_retries

\* C23: in one turn of advance_story the image generator is called at most
\* MAX_IMAGE_RETRIES = 2 times; the first candidate that passes the sanity
\* check is the one in the response and none is generated after it; when
\* none passes, or the decision reports no change, the image slot is null.
C23_ImageAttemptsBounded ==
  pc \in {"image", "sanity", "package", "done"} =>
     /\ ImageCalls <= MAX_IMAGE_RETRIES
     /\ pc = "done" => response.image_b64 = image_b64
     /\ (pc = "done" /\ image_b64 # Null) => image_b64 = b64encode(img_bytes)

\* C24: in every turn that commits, the stages run in the order scene
\* generation, fact extraction, consistency check, state merge, choice
\* generation, world building, media generation, response packaging: each
\* step of a turn leads from one stage to the one the order puts next (or
\* out of the turn by an exception or the early return of the endpoint).
\* pc names the stage that runs next.
StageAfter(p) ==
  CASE p = "scene"   -> {"facts"}
    [] p = "facts"   -> {"check"}
    [] p = "check"   -> {"scene", "commit"}
    [] p = "commit"  -> {"choices"}
    [] p = "choices" -> {"world"}
    [] p = "world"   -> {"tts"}
    [] p = "tts"     -> {"decide"}
    [] p = "decide"  -> {"image", "package"}
    [] p = "image"   -> {"sanity"}
    [] p = "sanity"  -> {"image", "package"}
    [] p = "package" -> {"done"}
    [] p = "h_scene"   -> {"h_facts"}
    [] p = "h_facts"   -> {"h_check"}
    [] p = "h_check"   -> {"h_commit", "h_done"}
    [] p = "h_commit"  -> {"h_choices"}
    [] p = "h_choices" -> {"h_world"}
    [] p = "h_world"   -> {"h_respond"}
    [] p = "h_respond" -> {"h_done"}
    [] OTHER -> {"scene", "h_scene", "h_error"}
C24_StageOrder ==
  [][pc' # pc => pc' \in StageAfter(pc) \cup {"error", "h_error"}]_vars

\* C25: the client handle of an adapter is constructed at most once per
\* process: the first call creates it and every later call returns that
\* same handle, also when the first calls of two request threads interleave
\* in the check-then-create sequence; and the first use never fails for
\* lack of an initialized slot.
C25_ClientCreatedOnce ==
  call.op = "_get_hf_client" =>
     /\ call.created <= 1
     /\ \A t \in Threads : ~call.th[t].failed
     /\ \A t, u \in Threads :
          (call.th[t].got # 0 /\ call.th[u].got # 0) =>
             call.th[t].got = call.th[u].got
\* the part of C25 that holds: calls that do not overlap, on a module
\* that binds the slot at import, construct one handle
OneThreadCreatesOnce ==
  (/\ call.op = "_get_hf_client"
   /\ call.th[2].calls = 0 /\ call.th[2].at = "idle") =>
     /\ call.created <= 1
     /\ call.slot.bound => ~call.th[1].failed

\* C26: turns of independent sessions do not interfere.  However the
\* steps of two requests interleave, each request's context, state and
\* response are those of the request run alone on its payload with the same
\* replies of the models, and the two sessions hold different scene_history
\* and facts objects.
AloneState(i) == from_dict(Sess(i).req.state, i).fields
AlonePassed(i) == validate_consistency(AloneState(i).facts, Sess(i).new_facts)
AloneCommitted(i) ==
  [AloneState(i) EXCEPT
     !.facts = [k \in DOMAIN @ \cup DOMAIN Sess(i).new_facts |->
                  IF k \in DOMAIN Sess(i).new_facts THEN Sess(i).new_facts[k]
                  ELSE @[k]],
     !.scene_history = @ \o <<Sess(i).scene_text>>]
AloneResponse(i) ==
  IF AlonePassed(i)
  THEN [scene_text |-> Sess(i).scene_text, new_facts |-> Sess(i).new_facts,
        is_consistent |-> TRUE, choices |-> Sess(i).choices,
        world |-> Sess(i).world, updated_state |-> AloneCommitted(i)]
  ELSE [scene_text |-> Sess(i).scene_text, new_facts |-> Sess(i).new_facts,
        is_consistent |-> FALSE, choices |-> <<>>, world |-> EmptyDict,
        updated_state |-> AloneState(i)]
C26_SessionsIndependent ==
  call.op = "sessions" =>
    \A i \in Sessions :
      Sess(i).at # "idle" =>
        /\ \A j \in Sessions \ {i} :
             Sess(j).at # "idle" =>
               Sess(i).hist # Sess(j).hist /\ Sess(i).facts # Sess(j).facts
        /\ Sess(i).context =
             get_context_window(AloneState(i).scene_history,
                                AloneState(i).facts, CONTEXT_N)
        /\ Sess(i).at \in {"scene", "facts", "check", "commit"} =>
             History(i) = AloneState(i).scene_history /\ Facts(i) = AloneState(i).facts
        /\ Sess(i).at \in {"choices", "world", "respond"} =>
             /\ History(i) = AloneCommitted(i).scene_history
             /\ Facts(i) = AloneCommitted(i).facts
        /\ Sess(i).at = "done" => Sess(i).response = AloneResponse(i)
\* both requests answered: the one rebuilt second committed, the one rebuilt
\* first returned early
C26_Witness ==
  /\ call.op = "sessions"
  /\ Sess(1).at = "done" /\ Sess(2).at = "done"
  /\ Sess(1).hist = 2 /\ Sess(2).hist = 1
  /\ Sess(1).response.is_consistent
  /\ ~Sess(2).response.is_consistent
  /\ Len(Sess(1).response.updated_state.scene_history) = 2

\* C27: in advance_story the committed scene and the committed facts come
\* from the same generation attempt: every time the loop is tested or left,
\* the fact extractor has run as often as the scene generator (so new_facts
\* was extracted from the current scene_text), and what is merged, appended
\* and returned are that new_facts and that scene_text.
PastCommit ==
  pc \in {"world", "choices", "tts", "decide", "image", "sanity", "package",
          "done"}
C27_SceneAndFactsSameAttempt ==
  /\ (pc = "check" \/ pc = "commit" \/ PastCommit) => sceneCalls = factCalls
  /\ PastCommit =>
       /\ scene_history # <<>>
       /\ scene_history[Len(scene_history)] = scene_text
       /\ \A k \in DOMAIN new_facts.d :
            k \in DOMAIN facts /\ facts[k] = new_facts.d[k]
  /\ pc = "done" => response.scene_text = scene_text
\* a turn that gave up after the last retry and returned, on a state that
\* already had a scene
C27_Witness ==
  /\ pc = "done"
  /\ checks = <<FALSE, FALSE, FALSE>>
  /\ sceneCalls = 3
  /\ factCalls = 3
  /\ Len(scene_history) >= 2
  /\ response.scene_text = scene_history[Len(scene_history)]

\* C28: at the media decision of advance_story the old side given to the
\* classifier is the facts as committed before this turn and the new side
\* is this turn's result, so a turn that changes a core fact gives the
\* classifier two sides that differ in it.
C28_DeciderSeesPreTurnFacts ==
  pc = "decide" =>
     /\ decider_args.old_facts = pre.facts
     /\ decider_args.new_facts = new_facts.d
     /\ \A k \in CoreKeySet :
          Get(pre.facts, k) # Get(new_facts.d, k) =>
             Get(decider_args.old_facts, k) # Get(decider_args.new_facts, k)

\* C29: in the HTTP variant, over requests that each carry the
\* updated_state of the previous response, a core fact that is non-null in
\* the committed state never later holds a different non-null value: over
\* the whole session each core key has had at most one non-null value.
C29_CoreFactNeverChanges ==
  call.op = "generate_scene_endpoint" =>
     \A p, q \in call.held : p[1] = q[1] => p[2] = q[2]

\* C30: in generate_scene_endpoint the scene generator, the fact extractor
\* and the consistency checker each run at most once per request, whether
\* the check passes or fails: no regeneration before the inconsistent
\* response.
TimesRun(agent) ==
  Cardinality({i \in 1..Len(call.stages) : call.stages[i] = agent})
C30_EachStageOnce ==
  call.op = "generate_scene_endpoint" =>
     /\ \A a \in {"story", "facts", "consistency", "choices", "world"} :
          TimesRun(a) <= 1
     /\ Len(checks) <= 1
     /\ (pc = "h_done" /\ ~response.is_consistent) =>
          call.stages = <<"story", "facts", "consistency">>
\* an inconsistent response on the third request of a session
C30_Witness ==
  /\ call.op = "generate_scene_endpoint"
  /\ pc = "h_done"
  /\ turns = 3
  /\ ~response.is_consistent
  /\ TimesRun("story") = 1
  /\ TimesRun("consistency") = 1

====
